---- MODULE Spec2Model ----
(***************************************************************************)
(* Storage facade of the LLM backend SDK (src/src/api/database.ts) over    *)
(* the PostgresClient and its SQL statements (src/README.md): the          *)
(* versioned migration runner, the chat reconciler syncChats, and the      *)
(* chat/message statements they run.                                       *)
(***************************************************************************)
EXTENDS Integers, Sequences, FiniteSets, TLC

(***************************************************************************)
(* Bounds of the model.                                                    *)
(***************************************************************************)
\* epoch-millisecond timestamps of client records are 1..MaxTime
MaxTime == 2
ChatIds == {"c1", "c2"}
UserIds == {"u1", "u2"}
MsgIds == {"m1", "m2"}

(***************************************************************************)
(* Values.                                                                 *)
(***************************************************************************)
\* null / undefined of an optional number (deletedAt, the watermark)
Null == -1
\* to_timestamp($n::BIGINT/1000.0): TIMESTAMPTZ keeps microseconds
MicrosPerMilli == 1000

\* JavaScript truthiness of an optional number: `x || null`, `if (x)`
Truthy(x) == x # Null /\ x # 0

\* to_timestamp(ms::BIGINT/1000.0), as microseconds since the epoch
ToTimestamp(ms) == ms * MicrosPerMilli

\* Date.parse(ts.toISOString()) / new Date(ts).getTime(): back to milliseconds
FromTimestamp(us) == us \div MicrosPerMilli

\* CASE WHEN deleted_at IS NULL THEN NULL ELSE to_timestamp(...) END of
\* the parameter `chat.deletedAt || null`
DeletedAtColumn(deletedAt) ==
    IF Truthy(deletedAt) THEN ToTimestamp(deletedAt) ELSE Null

Range(s) == {s[i] : i \in DOMAIN s}

\* the lists a caller passes: empty, one element or two
Batches(S) == {<<>>} \cup {<<a>> : a \in S} \cup {<<a, b>> : a \in S, b \in S}

Min(a, b) == IF a < b THEN a ELSE b

Times == 1..MaxTime
OptTimes == {Null} \cup Times
\* the optional `updatedAt` argument of syncChats: absent or a timestamp
Watermarks == {Null} \cup Times

\* the Chat DTOs a caller passes, for chats `ids` with titles `titles`
ChatDtos(ids, titles) ==
    [chatId : ids, userId : UserIds, title : titles,
     updatedAt : Times, deletedAt : OptTimes]

\* the Message DTOs a caller passes: messages `ids` of chats `chatIds`
MessageDtos(ids, chatIds, contents) ==
    [messageId : ids, chatId : chatIds, content : contents]

EmptyTable == [id \in {} |-> Null]

\* getChatsByUserId(userId, updatedAfter?, limit: number = 20, page = 0)
DefaultLimit == 20

\* fromVersion keys a caller registers run up to MaxVersion
MaxVersion == 2

VARIABLES
    databaseClient,   \* the facade's module-level client: "null", or the
                      \* state of its pool, "open" or "ended"
    migrations,       \* the client's map fromVersion -> upgrade procedure
    schema,           \* what is committed of the schema: the version table,
                      \* its rows, the effects of the procedures
    chats,            \* table chats: id -> row, for the ids that have a row
    messages,         \* table messages: id -> row, for the ids that have a row
    sync,             \* the syncChats call in flight
    mig,              \* the initializeDatabase run in flight
    held,             \* pool handles acquired and not yet released
    outcome,          \* how the last facade call ended, "pending" in a call
    llm               \* the LLM facade's call in flight, or the last one

vars == <<databaseClient, migrations, schema, chats, messages, sync, mig,
          held, outcome, llm>>

NotInitialized == "Database client not initialized. Call initializeDatabase first."

\* const isDatabaseClientSet = () => databaseClient !== null
isDatabaseClientSetAlways == TRUE
isDatabaseClientSet == databaseClient # "null"

\* this.pool.connect() rejects once pool.end() was called
PoolConnectFails == databaseClient = "ended"

Idle == [pc |-> "idle"]

\* the end of a call: `about` is what it was called with (ids, versions)
Done(op, status, about) == [op |-> op, status |-> status, about |-> about]

\* the effect of an upgrade procedure on the schema: `whole` when it ran to
\* its end, not when it threw partway
Effect(version, by, whole) == [version |-> version, by |-> by, whole |-> whole]

\* the procedure the constructor registers for version 0 creates the tables
\* chats and messages; every statement on them needs it
TablesExist(s) == Effect(0, "baseline", TRUE) \in s.effects

(***************************************************************************)
(* The SQL statements, as functions of the tables.                         *)
(***************************************************************************)
\* a row of GET_CHATS_BY_USER_ID_QUERY mapped to the Chat DTO
ChatObject(table, id) ==
    [chatId |-> id,
     userId |-> table[id].user_id,
     title |-> table[id].title,
     updatedAt |-> FromTimestamp(table[id].updated_at),
     deletedAt |-> IF table[id].deleted_at # Null
                   THEN FromTimestamp(table[id].deleted_at) ELSE Null]

\* WHERE c.user_id = $1 AND ($2 IS NULL OR c.updated_at > to_timestamp($2/1000.0))
\* with $2 = `updatedAfter || null`
ChatsWhere(table, userId, updatedAfter) ==
    {id \in DOMAIN table :
        /\ table[id].user_id = userId
        /\ (~Truthy(updatedAfter)
              \/ table[id].updated_at > ToTimestamp(updatedAfter))}

\* ORDER BY c.updated_at DESC LIMIT $3 OFFSET 0: the possible pages (rows
\* with equal updated_at come in any order), each as the set of its DTOs
GetChatsByUserId(table, userId, updatedAfter, limit) ==
    LET matching == ChatsWhere(table, userId, updatedAfter)
        n == Min(limit, Cardinality(matching))
    IN  {{ChatObject(table, id) : id \in page} :
            page \in {p \in SUBSET matching :
                        /\ Cardinality(p) = n
                        /\ \A a \in p, b \in matching \ p :
                              table[a].updated_at >= table[b].updated_at}}

\* one row of the bulk INSERT of ADD_CHATS_QUERY / UPSERT_CHATS_QUERY
ChatRow(chat) ==
    [user_id |-> chat.userId,
     title |-> chat.title,
     updated_at |-> ToTimestamp(chat.updatedAt),
     deleted_at |-> DeletedAtColumn(chat.deletedAt)]

\* the proposed rows of one INSERT carry no chat id twice
DistinctIds(rows) ==
    \A i, j \in DOMAIN rows : rows[i].chatId = rows[j].chatId => i = j

\* UPSERT_CHATS_QUERY: INSERT ... ON CONFLICT (id) DO UPDATE SET user_id,
\* title, updated_at, deleted_at = EXCLUDED.*.  Postgres refuses a command
\* that would affect one row a second time.
UpsertFails(rows) == ~DistinctIds(rows)

UpsertChatsIfNewer(table, rows) ==
    [id \in DOMAIN table \cup {r.chatId : r \in Range(rows)} |->
        LET row == ChatRow(CHOOSE r \in Range(rows) : r.chatId = id)
        IN  IF \E r \in Range(rows) : r.chatId = id
            THEN IF id \in DOMAIN table /\ row.updated_at <= table[id].updated_at
                 THEN table[id]
                 ELSE row
            ELSE table[id]]
UpsertChats(table, rows) ==
    [id \in DOMAIN table \cup {r.chatId : r \in Range(rows)} |->
        IF \E r \in Range(rows) : r.chatId = id
        THEN ChatRow(CHOOSE r \in Range(rows) : r.chatId = id)
        ELSE table[id]]

\* DELETE_MESSAGES_BY_CHAT_IDS: DELETE FROM messages WHERE chat_id = ANY($1)
DeleteMessagesByChatIds(table, chatIds) ==
    [m \in {x \in DOMAIN table : table[x].chat_id \notin Range(chatIds)} |->
        table[m]]

(***************************************************************************)
(* syncChats: the reconciliation pass of the facade.                       *)
(***************************************************************************)
\* dbChatsMap.get(chat.chatId): the snapshot's record of that id, if any
HasDbChat(dbChats, chatId) == \E d \in dbChats : d.chatId = chatId
DbChat(dbChats, chatId) == CHOOSE d \in dbChats : d.chatId = chatId

\* if (chat.userId !== userId) { console.error(...); return }
OwnedAlways(chat, userId) == TRUE
Owned(chat, userId) == chat.userId = userId

\* if (chat.deletedAt), on a record whose chat the snapshot holds live
ClientTombstonedNever(chat) == FALSE
ClientTombstoned(chat) == Truthy(chat.deletedAt)

\* else if (chat.updatedAt > dbChat.updatedAt)
ClientNewerOrTied(chat, dbChat) == chat.updatedAt >= dbChat.updatedAt
ClientNewer(chat, dbChat) == chat.updatedAt > dbChat.updatedAt

\* if (chat.deletedAt), on a record whose chat the snapshot does not hold
CascadeWhenAbsentNever(chat) == FALSE
CascadeWhenAbsent(chat) == Truthy(chat.deletedAt)

\* if (!dbChat.deletedAt) {...} has no else: a record whose chat the
\* snapshot holds tombstoned pushes nothing
DropButCascade(chat) == [sync |-> <<>>, del |-> <<chat.chatId>>]
DropSilently(chat) == [sync |-> <<>>, del |-> <<>>]

\* the body of chats.forEach: what one client record pushes on the lists
ReconcileOne(chat, userId, dbChats) ==
    IF ~Owned(chat, userId)
    THEN [sync |-> <<>>, del |-> <<>>]
    ELSE IF HasDbChat(dbChats, chat.chatId)
    THEN LET dbChat == DbChat(dbChats, chat.chatId)
         IN  IF ~Truthy(dbChat.deletedAt)
             THEN IF ClientTombstoned(chat)
                  THEN [sync |-> <<chat>>, del |-> <<chat.chatId>>]
                  ELSE IF ClientNewer(chat, dbChat)
                  THEN [sync |-> <<chat>>, del |-> <<>>]
                  ELSE [sync |-> <<>>, del |-> <<>>]
             ELSE DropSilently(chat)
    ELSE [sync |-> <<chat>>,
          del |-> IF CascadeWhenAbsent(chat) THEN <<chat.chatId>> ELSE <<>>]

\* chats.forEach(...): chatsToSync and chatsToDelete after the whole pass
RECURSIVE Reconcile(_, _, _)
Reconcile(chatList, userId, dbChats) ==
    IF chatList = <<>>
    THEN [sync |-> <<>>, del |-> <<>>]
    ELSE LET n == Len(chatList)
             before == Reconcile(SubSeq(chatList, 1, n - 1), userId, dbChats)
             one == ReconcileOne(chatList[n], userId, dbChats)
         IN  [sync |-> before.sync \o one.sync, del |-> before.del \o one.del]

\* chats.forEach(chat => {...}): a return in the callback ends the turn of
\* that record alone, the pass goes on with the next
ForEachChatOrAbort(chatList, userId, dbChats) ==
    IF \E r \in Range(chatList) : r.userId # userId
    THEN [sync |-> <<>>, del |-> <<>>]
    ELSE Reconcile(chatList, userId, dbChats)
ForEachChat(chatList, userId, dbChats) == Reconcile(chatList, userId, dbChats)

(***************************************************************************)
(* The pool and the transaction of one handle.                             *)
(***************************************************************************)
\* const client = await this.pool.connect()
Acquire(h) == h + 1
\* finally { client.release() }
ReleaseForgotten(h) == h
Release(h) == h - 1

\* the tables as one value: what a transaction works on
Store(c, m) == [chats |-> c, messages |-> m]

\* catch (error) { await client.query('ROLLBACK'); throw error }
RollbackKeepsWork(committed, working) == working
Rollback(committed, working) == committed
\* await client.query('COMMIT')
Commit(committed, working) == working

\* the engine may refuse any statement whatever its text (connection lost,
\* statement timeout), and an upgrade procedure may throw: each runs or not
Refusals == {FALSE, TRUE}

\* a facade call arrives when the previous one has returned
NoCall == sync.pc = "idle" /\ mig.pc = "idle"

(***************************************************************************)
(* syncChats.                                                              *)
(***************************************************************************)
\* syncChats up to the BEGIN of PostgresClient.syncChats: the guard, the
\* empty batch, the snapshot read, the reconciliation pass, the early
\* return on two empty lists, pool.connect() and BEGIN
SyncStart(userId, chatList, updatedAt) ==
    /\ NoCall
    /\ IF ~isDatabaseClientSet
       THEN /\ outcome' = Done("syncChats", NotInitialized, {})
            /\ UNCHANGED <<sync, held>>
       ELSE IF chatList = <<>>
       THEN /\ outcome' = Done("syncChats", "ok", {})
            /\ UNCHANGED <<sync, held>>
       ELSE IF PoolConnectFails
       THEN /\ outcome' = Done("syncChats", "error", {})
            /\ UNCHANGED <<sync, held>>
       ELSE IF ~TablesExist(schema)
       THEN /\ outcome' = Done("syncChats", "error", {})
            /\ held' = Release(Acquire(held))
            /\ UNCHANGED sync
       ELSE \E dbChats \in GetChatsByUserId(chats, userId, updatedAt, DefaultLimit) :
              LET lists == ForEachChat(chatList, userId, dbChats)
              IN  IF lists.sync = <<>> /\ lists.del = <<>>
                  THEN /\ outcome' = Done("syncChats", "ok", {})
                       /\ held' = Release(Acquire(held))
                       /\ UNCHANGED sync
                  ELSE /\ sync' = [pc |-> "upsert", userId |-> userId,
                                   chats |-> chatList, updatedAt |-> updatedAt,
                                   dbChats |-> dbChats,
                                   chatsToSync |-> lists.sync,
                                   chatsToDelete |-> lists.del,
                                   tx |-> Store(chats, messages)]
                       /\ held' = Acquire(Release(Acquire(held)))
                       /\ outcome' = Done("syncChats", "pending", {})
    /\ UNCHANGED <<llm, databaseClient, migrations, schema, chats, messages, mig>>

\* if (chatsToSync.length > 0) await queryWithClient(client, UPSERT_CHATS_QUERY, ...)
SyncUpsert(refused) ==
    /\ sync.pc = "upsert"
    /\ IF sync.chatsToSync = <<>>
       THEN sync' = [sync EXCEPT !.pc = "delete"]
       ELSE IF refused \/ UpsertFails(sync.chatsToSync)
       THEN sync' = [sync EXCEPT !.pc = "rollback"]
       ELSE sync' = [sync EXCEPT
                        !.pc = "delete",
                        !.tx = Store(UpsertChats(sync.tx.chats, sync.chatsToSync),
                                     sync.tx.messages)]
    /\ UNCHANGED <<llm, databaseClient, migrations, schema, chats, messages, mig,
                   held, outcome>>

\* if (chatsToDelete.length > 0) await queryWithClient(client, DELETE_MESSAGES_BY_CHAT_IDS, ...)
SyncDelete(refused) ==
    /\ sync.pc = "delete"
    /\ IF sync.chatsToDelete = <<>>
       THEN sync' = [sync EXCEPT !.pc = "commit"]
       ELSE IF refused
       THEN sync' = [sync EXCEPT !.pc = "rollback"]
       ELSE sync' = [sync EXCEPT
                        !.pc = "commit",
                        !.tx = Store(sync.tx.chats,
                                     DeleteMessagesByChatIds(sync.tx.messages,
                                                             sync.chatsToDelete))]
    /\ UNCHANGED <<llm, databaseClient, migrations, schema, chats, messages, mig,
                   held, outcome>>

\* the end of the transaction: what becomes of the tables, and the release
SyncEnd(store, status) ==
    /\ chats' = store.chats
    /\ messages' = store.messages
    /\ held' = Release(held)
    /\ outcome' = Done("syncChats", status, {})
    /\ sync' = Idle
    /\ UNCHANGED <<llm, databaseClient, migrations, schema, mig>>

\* await client.query('COMMIT'); finally { client.release() }
SyncCommit ==
    /\ sync.pc = "commit"
    /\ SyncEnd(Commit(Store(chats, messages), sync.tx), "ok")

\* catch (error) { ROLLBACK; throw error } finally { client.release() }
SyncRollback ==
    /\ sync.pc = "rollback"
    /\ SyncEnd(Rollback(Store(chats, messages), sync.tx), "error")

(***************************************************************************)
(* The operations that are one guarded call of one statement.              *)
(***************************************************************************)
\* the guard, then PostgresClient.query: connect, the statement, release.
\* `throws`: the statement is refused; `after`: the tables it leaves
Statement(op, about, throws, after) ==
    /\ NoCall
    /\ IF ~isDatabaseClientSet
       THEN /\ outcome' = Done(op, NotInitialized, about)
            /\ UNCHANGED <<chats, messages, held>>
       ELSE IF PoolConnectFails
       THEN /\ outcome' = Done(op, "error", about)
            /\ UNCHANGED <<chats, messages, held>>
       ELSE /\ held' = Release(Acquire(held))
            /\ IF throws \/ ~TablesExist(schema)
               THEN /\ outcome' = Done(op, "error", about)
                    /\ UNCHANGED <<chats, messages>>
               ELSE /\ outcome' = Done(op, "ok", about)
                    /\ chats' = after.chats
                    /\ messages' = after.messages
    /\ UNCHANGED <<llm, databaseClient, migrations, schema, sync, mig>>

\* a list operation returns before any statement when its list is empty
EmptyList(op) ==
    /\ NoCall
    /\ outcome' = Done(op, IF isDatabaseClientSet THEN "ok" ELSE NotInitialized, {})
    /\ UNCHANGED <<llm, databaseClient, migrations, schema, chats, messages, sync,
                   mig, held>>

\* the operations that only read: query, queryWithClient, countChatsByUserId,
\* getChatsByUserId, countMessagesByUserId, getMessagesByChatIds,
\* getMessagesByUserId
ReadOps ==
    {"query", "queryWithClient", "countChatsByUserId", "getChatsByUserId",
     "countMessagesByUserId", "getMessagesByChatIds", "getMessagesByUserId"}

Read(op, refused) == Statement(op, {}, refused, Store(chats, messages))

\* ADD_CHAT_QUERY / ADD_CHATS_QUERY: a plain INSERT, refused on a primary
\* key already there
InsertChatsFails(table, rows) ==
    \/ ~DistinctIds(rows)
    \/ \E r \in Range(rows) : r.chatId \in DOMAIN table

InsertChats(table, rows) ==
    [id \in DOMAIN table \cup {r.chatId : r \in Range(rows)} |->
        IF id \in DOMAIN table
        THEN table[id]
        ELSE ChatRow(CHOOSE r \in Range(rows) : r.chatId = id)]

\* addChats(chats)
AddChats(chatList) ==
    IF chatList = <<>>
    THEN EmptyList("addChats")
    ELSE Statement("addChats", {r.chatId : r \in Range(chatList)},
                   InsertChatsFails(chats, chatList),
                   Store(InsertChats(chats, chatList), messages))

\* addChat(chatId, title, userId, updatedAt, createdAt?, deletedAt?): the
\* facade passes createdAt fifth, where PostgresClient.addChat takes deletedAt
AddChat(chatId, title, userId, updatedAt, createdAt, deletedAt) ==
    LET row == [chatId |-> chatId, userId |-> userId, title |-> title,
                updatedAt |-> updatedAt, deletedAt |-> createdAt]
    IN  Statement("addChat", {chatId}, InsertChatsFails(chats, <<row>>),
                  Store(InsertChats(chats, <<row>>), messages))

\* RENAME_CHAT_QUERY: UPDATE chats SET title, updated_at WHERE id = $3
RenameChatRow(table, chatId, title, updatedAt) ==
    [id \in DOMAIN table |->
        IF id = chatId
        THEN [table[id] EXCEPT !.title = title,
                               !.updated_at = ToTimestamp(updatedAt)]
        ELSE table[id]]

RenameChat(chatId, title, updatedAt, refused) ==
    Statement("renameChat", {chatId}, refused,
              Store(RenameChatRow(chats, chatId, title, updatedAt), messages))

\* DELETE_CHAT_QUERY: DELETE FROM chats WHERE id = $1, and the messages that
\* reference it ON DELETE CASCADE
DeleteChatRow(store, chatId) ==
    Store([id \in DOMAIN store.chats \ {chatId} |-> store.chats[id]],
          DeleteMessagesByChatIds(store.messages, <<chatId>>))

DeleteChat(chatId, refused) ==
    Statement("deleteChat", {chatId}, refused,
              DeleteChatRow(Store(chats, messages), chatId))

\* a row of ADD_MESSAGE_QUERY / ADD_MESSAGES_QUERY
MessageRow(message) ==
    [chat_id |-> message.chatId, content |-> message.content]

\* chat_id INTEGER NOT NULL REFERENCES chats(id)
ForeignKeyFails(chatTable, message) == message.chatId \notin DOMAIN chatTable

\* ADD_MESSAGE_QUERY: a plain INSERT INTO messages ... VALUES (...)
AddMessageFails(chatTable, table, message) ==
    \/ message.messageId \in DOMAIN table
    \/ ForeignKeyFails(chatTable, message)

InsertMessage(table, message) ==
    [m \in DOMAIN table \cup {message.messageId} |->
        IF m = message.messageId THEN MessageRow(message) ELSE table[m]]

\* addMessage(messageId, chatId, content, role, createdAt, ...)
AddMessage(message) ==
    Statement("addMessage", {message.messageId},
              AddMessageFails(chats, messages, message),
              Store(chats, InsertMessage(messages, message)))

\* ON CONFLICT (id) DO NOTHING: a proposed row whose id is taken is skipped
OnConflictDoNothing(table, message) ==
    IF message.messageId \in DOMAIN table
    THEN table
    ELSE InsertMessage(table, message)

\* ADD_MESSAGES_QUERY: INSERT ... SELECT UNNEST(...) ON CONFLICT (id) DO
\* NOTHING, row after row: an id taken by the table or by an earlier row of
\* the same command is skipped
RECURSIVE InsertMessages(_, _)
InsertMessages(table, rows) ==
    IF rows = <<>>
    THEN table
    ELSE InsertMessages(OnConflictDoNothing(table, Head(rows)), Tail(rows))

\* the rows ON CONFLICT DO NOTHING does insert still need their chat
AddMessagesFails(chatTable, table, rows) ==
    \E r \in Range(rows) :
        r.messageId \notin DOMAIN table /\ ForeignKeyFails(chatTable, r)

\* addMessages(messages)
AddMessages(messageList) ==
    IF messageList = <<>>
    THEN EmptyList("addMessages")
    ELSE Statement("addMessages", {r.messageId : r \in Range(messageList)},
                   AddMessagesFails(chats, messages, messageList),
                   Store(chats, InsertMessages(messages, messageList)))

(***************************************************************************)
(* initializeDatabase: the migration runner, and shutdownDatabase.         *)
(***************************************************************************)
\* a store no run has committed on
FreshSchema == [versionTable |-> FALSE, versions |-> {}, effects |-> {}]

\* constructor: this.registerMigration(0, <create the tables and indexes>)
DefaultMigrations == [v \in {0} |-> "baseline"]

\* registerMigrations.forEach((migration, version) =>
\*     databaseClient.registerMigration(version, migration)): Map.set
RegisterAll(registered, callerMap) ==
    [v \in DOMAIN registered \cup DOMAIN callerMap |->
        IF v \in DOMAIN callerMap THEN callerMap[v] ELSE registered[v]]

\* the maps a caller passes: procedures of its own for some versions
CallerMaps == UNION {[keys -> {"caller"}] : keys \in SUBSET (0..MaxVersion)}

\* CREATE_VERSION_TABLE_QUERY: CREATE TABLE IF NOT EXISTS schema_versions
CreateVersionTable(s) == [s EXCEPT !.versionTable = TRUE]

\* GET_SCHEMA_VERSION_QUERY: SELECT COALESCE(MAX(version), 0)
SchemaVersion(s) ==
    IF s.versions = {}
    THEN 0
    ELSE CHOOSE v \in s.versions : \A w \in s.versions : w <= v

\* UPDATE_SCHEMA_VERSION_QUERY: INSERT INTO schema_versions (version) VALUES ($1)
UpdateSchemaVersionLost(s, version) == s
UpdateSchemaVersion(s, version) == [s EXCEPT !.versions = @ \cup {version}]

\* await migration(client): what the procedure does to the schema
RunMigrationSkipped(s, version, by, whole) == s
RunMigration(s, version, by, whole) ==
    [s EXCEPT !.effects = @ \cup {Effect(version, by, whole)}]

\* currentVersion++
NextVersionSkips(v) == v + 2
NextVersion(v) == v + 1

\* initializeDatabase up to the version read: the facade replaces its client
\* and registers the caller's procedures, then connect, BEGIN, the version
\* table, the version
InitStart(callerMap) ==
    /\ NoCall
    /\ databaseClient' = "open"
    /\ migrations' = RegisterAll(DefaultMigrations, callerMap)
    /\ held' = Acquire(held)
    /\ mig' = [pc |-> "walk",
               tx |-> CreateVersionTable(schema),
               currentVersion |-> SchemaVersion(CreateVersionTable(schema)),
               ran |-> <<>>,
               previous |-> outcome]
    /\ outcome' = Done("initializeDatabase", "pending", migrations')
    /\ UNCHANGED <<llm, schema, chats, messages, sync>>

\* one turn of while (this.migrations.has(currentVersion)) { ... }, or its exit
MigWalk(throws) ==
    /\ mig.pc = "walk"
    /\ IF mig.currentVersion \in DOMAIN migrations
       THEN LET v == mig.currentVersion
                by == migrations[v]
            IN  IF throws
                THEN mig' = [mig EXCEPT
                                !.pc = "rollback",
                                !.tx = RunMigration(mig.tx, v, by, FALSE),
                                !.ran = Append(@, v)]
                ELSE mig' = [mig EXCEPT
                                !.tx = UpdateSchemaVersion(
                                           RunMigration(mig.tx, v, by, TRUE),
                                           NextVersion(v)),
                                !.currentVersion = NextVersion(v),
                                !.ran = Append(@, v)]
       ELSE mig' = [mig EXCEPT !.pc = "commit"]
    /\ UNCHANGED <<llm, databaseClient, migrations, schema, chats, messages, sync,
                   held, outcome>>

\* the end of the run: what becomes of the schema, and the release
MigEnd(s, status) ==
    /\ schema' = s
    /\ held' = Release(held)
    /\ outcome' = Done("initializeDatabase", status, migrations)
    /\ mig' = Idle
    /\ UNCHANGED <<llm, databaseClient, migrations, chats, messages, sync>>

\* await client.query('COMMIT'); finally { client.release() }
MigCommit ==
    /\ mig.pc = "commit"
    /\ MigEnd(Commit(schema, mig.tx), "ok")

\* catch (error) { ROLLBACK; throw error } finally { client.release() }
MigRollback ==
    /\ mig.pc = "rollback"
    /\ MigEnd(Rollback(schema, mig.tx), "error")

\* the facade's client after shutdownDatabase: the same object, its pool
\* ended; databaseClient is not assigned
AfterShutdownCleared == "null"
AfterShutdown == "ended"

\* shutdownDatabase: if (isDatabaseClientSet()) await databaseClient.shutdown()
ShutdownDatabase ==
    /\ NoCall
    /\ IF ~isDatabaseClientSet
       THEN /\ outcome' = Done("shutdownDatabase", "ok", {})
            /\ UNCHANGED databaseClient
       ELSE IF databaseClient = "ended"
       THEN /\ outcome' = Done("shutdownDatabase", "error", {})
            /\ UNCHANGED databaseClient
       ELSE /\ outcome' = Done("shutdownDatabase", "ok", {})
            /\ databaseClient' = AfterShutdown
    /\ UNCHANGED <<llm, migrations, schema, chats, messages, sync, mig, held>>

(***************************************************************************)
(* The LLM facade: getModels, getCompletion, streamCompletion,             *)
(* generateImage.  Each call is one fetch and what the code does with the  *)
(* Response.                                                               *)
(***************************************************************************)
LlmOps == {"getModels", "getCompletion", "streamCompletion", "generateImage"}

\* what a response body holds: no body at all (res.body is null), no byte,
\* text that is not JSON, or JSON: an object, an object whose error has no
\* message, an object whose error.message is "m"
Bodies == {"none", "empty", "malformed", "object", "errorObject", "errorMessage"}

\* what fetch settles with: it rejects (network error), or it resolves with
\* a Response, response.ok telling a 2xx status
NetworkError == [rejected |-> TRUE, ok |-> FALSE, body |-> "none"]
Responses == [rejected : {FALSE}, ok : BOOLEAN, body : Bodies] \cup {NetworkError}

\* how a call ends: it returns (a generator: it completes) or it throws
Pending == [kind |-> "pending", what |-> <<>>]
Returned(value) == [kind |-> "returned", what |-> <<value>>]
Thrown(description) == [kind |-> "thrown", what |-> description]

\* await response.json(): rejects on a body that is not JSON
JsonFails(body) == body \in {"none", "empty", "malformed"}

\* throw new Error(`HTTP error! status: ${errJson.error.message}`), after
\* const errJson = await response.json()
HttpError(body) ==
    IF JsonFails(body) THEN Thrown(<<"SyntaxError">>)
    ELSE IF body = "object" THEN Thrown(<<"TypeError">>)
    ELSE IF body = "errorObject"
    THEN Thrown(<<"HTTP error! status: ", "undefined">>)
    ELSE Thrown(<<"HTTP error! status: ", "m">>)

\* getModels / getCompletion / generateImage, from the Response on
Settle(response) ==
    IF response.rejected THEN Thrown(<<"fetch failed">>)
    ELSE IF ~response.ok THEN HttpError(response.body)
    ELSE IF JsonFails(response.body) THEN Thrown(<<"SyntaxError">>)
    ELSE Returned(response.body)

\* the chunks reader.read() can deliver for a body: nothing, the text in
\* one chunk, or in two, cut between characters or inside one
Deliveries(body) ==
    IF body = "empty" THEN {<<>>}
    ELSE {<<[text |-> body, part |-> "whole"]>>,
          <<[text |-> body, part |-> "head"], [text |-> body, part |-> "tail"]>>,
          <<[text |-> body, part |-> "head cut"], [text |-> body, part |-> "tail cut"]>>}

\* decoder.decode(value), with no { stream: true }: the bytes of a character
\* cut by the chunk boundary come out as U+FFFD
Decode(chunk) ==
    [text |-> chunk.text, part |-> chunk.part,
     garbled |-> chunk.part \in {"head cut", "tail cut"}]

LlmIdle == [pc |-> "idle", op |-> "none", response |-> NetworkError,
            left |-> <<>>, yielded |-> <<>>, result |-> Pending, fetches |-> 0]

\* const response = await fetch(`${baseUrl}/v1/...`, {...})
LlmFetch(op, response) ==
    /\ llm.pc = "idle"
    /\ llm' = [pc |-> "fetched", op |-> op, response |-> response,
               left |-> <<>>, yielded |-> <<>>, result |-> Pending,
               fetches |-> 1]
    /\ UNCHANGED <<databaseClient, migrations, schema, chats, messages, sync,
                   mig, held, outcome>>

\* getModels, getCompletion, generateImage after the fetch: if (!response.ok)
\* throw ...; return await response.json(); catch (error) { log; throw error }
LlmSettle ==
    /\ llm.pc = "fetched"
    /\ llm.op # "streamCompletion"
    /\ llm' = [llm EXCEPT !.pc = "idle", !.result = Settle(llm.response)]
    /\ UNCHANGED <<databaseClient, migrations, schema, chats, messages, sync,
                   mig, held, outcome>>

\* streamCompletion after the fetch: if (!res.body) throw new Error("No
\* streamable response"); const reader = res.body.getReader()
StreamOpen ==
    /\ llm.pc = "fetched"
    /\ llm.op = "streamCompletion"
    /\ IF llm.response.rejected
       THEN llm' = [llm EXCEPT !.pc = "idle", !.result = Thrown(<<"fetch failed">>)]
       ELSE IF llm.response.body = "none"
       THEN llm' = [llm EXCEPT !.pc = "idle",
                               !.result = Thrown(<<"No streamable response">>)]
       ELSE \E chunks \in Deliveries(llm.response.body) :
               llm' = [llm EXCEPT !.pc = "streaming", !.left = chunks]
    /\ UNCHANGED <<databaseClient, migrations, schema, chats, messages, sync,
                   mig, held, outcome>>

\* one turn of while (true): const { done, value } = await reader.read();
\* if (done) break; yield decoder.decode(value).  `fails`: read() rejects
StreamRead(fails) ==
    /\ llm.pc = "streaming"
    /\ IF fails
       THEN llm' = [llm EXCEPT !.pc = "idle", !.result = Thrown(<<"read failed">>)]
       ELSE IF llm.left = <<>>
       THEN llm' = [llm EXCEPT !.pc = "idle", !.result = Returned("done")]
       ELSE llm' = [llm EXCEPT !.left = Tail(@),
                               !.yielded = Append(@, Decode(Head(llm.left)))]
    /\ UNCHANGED <<databaseClient, migrations, schema, chats, messages, sync,
                   mig, held, outcome>>

(***************************************************************************)
(* The whole facade, from a process that has not initialized it, on a      *)
(* fresh store or on the store an earlier process left.                    *)
(***************************************************************************)
\* the schema after a committed run of the baseline procedure alone
InitializedSchema ==
    [versionTable |-> TRUE, versions |-> {1},
     effects |-> {Effect(0, "baseline", TRUE)}]

\* the chats an earlier process left in the store
LeftChats ==
    {EmptyTable,
     [id \in {"c1"} |-> ChatRow([chatId |-> "c1", userId |-> "u1", title |-> "t",
                                 updatedAt |-> 1, deletedAt |-> Null])]}

Init ==
    /\ databaseClient = "null"
    /\ migrations = DefaultMigrations
    /\ \/ schema = FreshSchema /\ chats = EmptyTable
       \/ schema = InitializedSchema /\ chats \in LeftChats
    /\ messages = EmptyTable
    /\ sync = Idle
    /\ mig = Idle
    /\ held = 0
    /\ outcome = Done("none", "ok", {})
    /\ llm = LlmIdle

\* the records and messages the calls of this specification carry
FewChats == [chatId : {"c1"}, userId : {"u1"}, title : {"t"},
             updatedAt : Times, deletedAt : {Null, MaxTime}]
FewMessages == MessageDtos({"m1"}, {"c1"}, {"x"})

Next ==
    \/ NoCall /\ \E callerMap \in CallerMaps : InitStart(callerMap)
    \/ \E throws \in Refusals : MigWalk(throws)
    \/ MigCommit
    \/ MigRollback
    \/ ShutdownDatabase
    \/ NoCall /\ \E op \in ReadOps, refused \in Refusals : Read(op, refused)
    \/ NoCall /\ \E chat \in FewChats :
                    AddChat(chat.chatId, chat.title, chat.userId,
                            chat.updatedAt, Null, chat.deletedAt)
    \/ NoCall /\ \E chatList \in {<<>>} \cup {<<c>> : c \in FewChats} :
                    AddChats(chatList)
    \/ NoCall /\ \E chatList \in {<<>>} \cup {<<c>> : c \in FewChats} :
                    SyncStart("u1", chatList, Null)
    \/ \E refused \in Refusals : SyncUpsert(refused)
    \/ \E refused \in Refusals : SyncDelete(refused)
    \/ SyncCommit
    \/ SyncRollback
    \/ NoCall /\ \E message \in FewMessages : AddMessage(message)
    \/ NoCall /\ \E messageList \in {<<>>} \cup {<<m>> : m \in FewMessages} :
                    AddMessages(messageList)
    \/ NoCall /\ \E refused \in Refusals : RenameChat("c1", "t", MaxTime, refused)
    \/ NoCall /\ \E refused \in Refusals : DeleteChat("c1", refused)

Spec == Init /\ [][Next]_vars

(***************************************************************************)
(* The store in use: the facade initialized with no procedure of the       *)
(* caller's, one chat id, calls issued one at a time.                      *)
(***************************************************************************)
InitSync ==
    /\ databaseClient = "open"
    /\ migrations = DefaultMigrations
    /\ schema = InitializedSchema
    /\ chats = EmptyTable
    /\ messages = EmptyTable
    /\ sync = Idle
    /\ mig = Idle
    /\ held = 0
    /\ outcome = Done("initializeDatabase", "ok", DefaultMigrations)
    /\ llm = LlmIdle

NextSync ==
    \/ NoCall /\ \E userId \in UserIds, updatedAt \in Watermarks :
                    \E chatList \in Batches(ChatDtos({"c1"}, {"t"})) :
                        SyncStart(userId, chatList, updatedAt)
    \/ \E refused \in Refusals : SyncUpsert(refused)
    \/ \E refused \in Refusals : SyncDelete(refused)
    \/ SyncCommit
    \/ SyncRollback
    \/ NoCall /\ \E chat \in ChatDtos({"c1"}, {"t"}) : AddChats(<<chat>>)
    \/ NoCall /\ \E message \in MessageDtos({"m1"}, {"c1"}, {"x"}) :
                    AddMessage(message)

SpecSync == InitSync /\ [][NextSync]_vars

(***************************************************************************)
(* The message statements, on a store in use.                              *)
(***************************************************************************)
NextMessages ==
    \/ NoCall /\ \E chat \in [chatId : ChatIds, userId : {"u1"}, title : {"t"},
                              updatedAt : {1}, deletedAt : {Null}] :
                    AddChats(<<chat>>)
    \/ NoCall /\ \E message \in MessageDtos(MsgIds, ChatIds, {"x", "y"}) :
                    AddMessage(message)
    \/ NoCall /\ \E messageList \in Batches(MessageDtos(MsgIds, ChatIds, {"x", "y"})) :
                    AddMessages(messageList)
    \/ NoCall /\ \E chatId \in ChatIds : DeleteChat(chatId, FALSE)

SpecMessages == InitSync /\ [][NextMessages]_vars

(***************************************************************************)
(* The reconciliation pass alone: user u1 syncs, over every batch (of      *)
(* records of either user) and every snapshot getChatsByUserId can return. *)
(***************************************************************************)
\* what getChatsByUserId(userId, ...) can return: the user's own rows, one
\* per chat id
Snapshots(userId) ==
    {dbChats \in SUBSET [chatId : ChatIds, userId : {userId}, title : {"t"},
                         updatedAt : Times, deletedAt : OptTimes] :
        \A a, b \in dbChats : a.chatId = b.chatId => a = b}

InitReconcile ==
    /\ databaseClient = "open"
    /\ migrations = DefaultMigrations
    /\ schema = InitializedSchema
    /\ chats = EmptyTable
    /\ messages = EmptyTable
    /\ mig = Idle
    /\ held = 0
    /\ outcome = Done("syncChats", "pending", {})
    /\ llm = LlmIdle
    /\ \E dbChats \in Snapshots("u1") :
         sync = [pc |-> "snapshot", userId |-> "u1", dbChats |-> dbChats]

\* the pass over one batch, against the snapshot read for the user
ReconcilePass(chatList) ==
    /\ sync.pc = "snapshot"
    /\ LET lists == ForEachChat(chatList, sync.userId, sync.dbChats)
       IN  sync' = [pc |-> "reconciled", userId |-> sync.userId,
                    dbChats |-> sync.dbChats, chats |-> chatList,
                    chatsToSync |-> lists.sync, chatsToDelete |-> lists.del]
    /\ UNCHANGED <<llm, databaseClient, migrations, schema, chats, messages, mig,
                   held, outcome>>

NextReconcile ==
    /\ sync.pc = "snapshot"
    /\ \E chatList \in Batches(ChatDtos(ChatIds, {"t"})) : ReconcilePass(chatList)

SpecReconcile == InitReconcile /\ [][NextReconcile]_vars

(***************************************************************************)
(* Two syncChats calls of one user at once.  The awaits of the first call  *)
(* let a second call run: here the second runs whole, from its snapshot to *)
(* its COMMIT, after the first has read its snapshot and issued BEGIN and  *)
(* before the first's UPSERT.                                              *)
(***************************************************************************)
\* the second call: syncChats(sync.userId, chatList, updatedAt), committed.
\* The first call has changed nothing yet, so its statements will see what
\* the second committed (READ COMMITTED); what the first decided from its
\* own snapshot stays.  sync.other keeps the second call's snapshot and
\* upsert list.
SyncMeanwhile(chatList, updatedAt) ==
    /\ sync.pc = "upsert"
    /\ "other" \notin DOMAIN sync
    /\ \E dbChats \in GetChatsByUserId(chats, sync.userId, updatedAt, DefaultLimit) :
          LET lists == ForEachChat(chatList, sync.userId, dbChats)
              after == Store(UpsertChats(chats, lists.sync),
                             DeleteMessagesByChatIds(messages, lists.del))
              other == [dbChats |-> dbChats, chatsToSync |-> lists.sync]
          IN  /\ lists.sync # <<>>
              /\ ~UpsertFails(lists.sync)
              /\ chats' = Commit(Store(chats, messages), after).chats
              /\ messages' = Commit(Store(chats, messages), after).messages
              /\ sync' = [f \in DOMAIN sync \cup {"other"} |->
                            IF f = "other" THEN other
                            ELSE IF f = "tx" THEN after
                            ELSE sync[f]]
    /\ held' = Release(Acquire(Release(Acquire(held))))
    /\ UNCHANGED <<llm, databaseClient, migrations, schema, mig, outcome>>

\* the records the two calls carry: one chat of one user, at updatedAt
\* values enough for a stored one, a newer one and one newer still
RaceChats ==
    [chatId : {"c1"}, userId : {"u1"}, title : {"t"},
     updatedAt : 1 .. (MaxTime + 1), deletedAt : {Null, 1}]

NextRace ==
    \/ NoCall /\ \E chat \in RaceChats : SyncStart("u1", <<chat>>, Null)
    \/ \E chat \in RaceChats : SyncMeanwhile(<<chat>>, Null)
    \/ \E refused \in Refusals : SyncUpsert(refused)
    \/ \E refused \in Refusals : SyncDelete(refused)
    \/ SyncCommit
    \/ SyncRollback

SpecRace == InitSync /\ [][NextRace]_vars

(***************************************************************************)
(* The LLM facade alone: it keeps no state between calls and does not      *)
(* touch the store.                                                        *)
(***************************************************************************)
InitLlm ==
    /\ databaseClient = "null"
    /\ migrations = DefaultMigrations
    /\ schema = FreshSchema
    /\ chats = EmptyTable
    /\ messages = EmptyTable
    /\ sync = Idle
    /\ mig = Idle
    /\ held = 0
    /\ outcome = Done("none", "ok", {})
    /\ llm = LlmIdle

NextLlm ==
    \/ \E op \in LlmOps, response \in Responses : LlmFetch(op, response)
    \/ LlmSettle
    \/ StreamOpen
    \/ \E fails \in Refusals : StreamRead(fails)

SpecLlm == InitLlm /\ [][NextLlm]_vars

(***************************************************************************)
(* Properties of the reconciliation pass (SpecReconcile).                  *)
(***************************************************************************)
Reconciled == sync.pc = "reconciled"

\* the positions of the batch whose record belongs to the syncing user
OwnAt == {i \in DOMAIN sync.chats : sync.chats[i].userId = sync.userId}

\* how many entries of a list satisfy a test
CountIn(list, Test(_)) == Cardinality({i \in DOMAIN list : Test(list[i])})

\* C4: a record of the batch whose userId differs from the call's userId adds
\* nothing to chatsToSync or chatsToDelete: every record of chatsToSync is
\* the user's own, every id of chatsToDelete is the chatId of one of the
\* user's own records, and neither list is longer than the number of the
\* user's own records.
C4_OwnershipEnforced ==
    Reconciled =>
        /\ \A r \in Range(sync.chatsToSync) : r.userId = sync.userId
        /\ \A id \in Range(sync.chatsToDelete) :
              \E i \in OwnAt : sync.chats[i].chatId = id
        /\ Len(sync.chatsToSync) <= Cardinality(OwnAt)
        /\ Len(sync.chatsToDelete) <= Cardinality(OwnAt)

\* a batch mixes a foreign record of a chat the snapshot lacks (which an
\* unchecked pass would upsert) with a record of the user's that is upserted
C4_Witness ==
    /\ Reconciled
    /\ sync.chatsToSync # <<>>
    /\ \E i \in DOMAIN sync.chats :
          /\ sync.chats[i].userId # sync.userId
          /\ ~HasDbChat(sync.dbChats, sync.chats[i].chatId)

\* the record at position i is the user's, live, and the snapshot holds its
\* chat live
LiveOnBothSides(i) ==
    /\ i \in OwnAt
    /\ sync.chats[i].deletedAt = Null
    /\ HasDbChat(sync.dbChats, sync.chats[i].chatId)
    /\ DbChat(sync.dbChats, sync.chats[i].chatId).deletedAt = Null

\* C5: a live record of the user's whose chat the snapshot holds live is in
\* chatsToSync exactly when its updatedAt is strictly greater than the
\* server's (a tie is dropped), and it puts nothing in chatsToDelete: its
\* chatId is there only on account of a tombstoned record of the same chat
\* in the same batch.
C5_ServerWinsTies ==
    Reconciled =>
        \A i \in DOMAIN sync.chats :
            LiveOnBothSides(i) =>
                LET r == sync.chats[i]
                    d == DbChat(sync.dbChats, r.chatId)
                IN  /\ (r \in Range(sync.chatsToSync)) <=> (r.updatedAt > d.updatedAt)
                    /\ r.chatId \in Range(sync.chatsToDelete) =>
                          \E j \in OwnAt :
                              /\ sync.chats[j].chatId = r.chatId
                              /\ sync.chats[j].deletedAt # Null

\* a tie: equal updatedAt on both sides, and the record is dropped
C5_Witness ==
    /\ Reconciled
    /\ \E i \in DOMAIN sync.chats :
          /\ LiveOnBothSides(i)
          /\ sync.chats[i].updatedAt =
                DbChat(sync.dbChats, sync.chats[i].chatId).updatedAt
          /\ sync.chats[i] \notin Range(sync.chatsToSync)

OwnRecords(chatList) ==
    LET Own(r) == r.userId = sync.userId
    IN  SelectSeq(chatList, Own)

\* C15: the records of a batch whose userId is not the call's do not stop
\* the pass: chatsToSync and chatsToDelete, which are all that the apply
\* phase is given, are what the pass makes of the batch with those records
\* taken out.
C15_ViolationSkipsOneRecord ==
    Reconciled =>
        LET alone == Reconcile(OwnRecords(sync.chats), sync.userId, sync.dbChats)
        IN  /\ sync.chatsToSync = alone.sync
            /\ sync.chatsToDelete = alone.del

\* a foreign record comes first in the batch, and the user's record after
\* it is upserted all the same
C15_Witness ==
    /\ Reconciled
    /\ Len(sync.chats) = 2
    /\ sync.chats[1].userId # sync.userId
    /\ sync.chats[2].userId = sync.userId
    /\ sync.chatsToSync = <<sync.chats[2]>>

(***************************************************************************)
(* Properties of syncChats against the store (SpecSync).                   *)
(***************************************************************************)
SyncInFlight == sync.pc \in {"upsert", "delete", "commit", "rollback"}

\* C1: as the specification words it, delete is terminal: the commit of a
\* syncChats call leaves every stored chat of its user that carries a
\* deleted_at as it was, whatever the client sent.  The snapshot the pass consults is cut by
\* the caller's watermark, by the user and by the page limit, so a stored
\* tombstone can be missing from it; its record is then upserted as a chat
\* unknown to the server.
C1_DeleteIsTerminal ==
    [][sync.pc = "commit" =>
          \A id \in DOMAIN chats :
              (chats[id].user_id = sync.userId /\ chats[id].deleted_at # Null) =>
                  id \in DOMAIN chats' /\ chats'[id] = chats[id]]_vars

\* the record at position i of the batch in flight is the user's and
\* tombstoned, and the store holds its chat live
TombstoneOverLive(i) ==
    /\ sync.chats[i].userId = sync.userId
    /\ sync.chats[i].deletedAt # Null
    /\ sync.chats[i].chatId \in DOMAIN chats
    /\ chats[sync.chats[i].chatId].deleted_at = Null

C8_ApplyIsAtomic ==
    [][/\ sync.pc \in {"upsert", "delete", "rollback"} =>
             chats' = chats /\ messages' = messages
       /\ sync.pc = "rollback" => outcome'.status = "error"
       /\ sync.pc = "commit" =>
             chats' = sync.tx.chats /\ messages' = sync.tx.messages]_vars

\* the upsert went through in the transaction, then the delete failed
C8_Witness ==
    /\ sync.pc = "rollback"
    /\ sync.tx.chats # chats
    /\ sync.chatsToDelete # <<>>
    /\ messages # EmptyTable

\* C18: in a syncChats call every chat id of chatsToDelete is the chatId
\* of a tombstoned record of chatsToSync, and the messages its commit
\* removes are messages of chats that the commit leaves tombstoned.
C18_CascadeOnlyWithTombstone ==
    [][SyncInFlight =>
          /\ \A id \in Range(sync.chatsToDelete) :
                \E r \in Range(sync.chatsToSync) :
                    r.chatId = id /\ r.deletedAt # Null
          /\ sync.pc = "commit" =>
                \A m \in DOMAIN messages \ DOMAIN messages' :
                    /\ messages[m].chat_id \in DOMAIN chats'
                    /\ chats'[messages[m].chat_id].deleted_at # Null]_vars

\* about to commit the removal of a stored message
C18_Witness ==
    /\ sync.pc = "commit"
    /\ \E m \in DOMAIN messages :
          /\ messages[m].chat_id \in Range(sync.chatsToDelete)
          /\ m \notin DOMAIN sync.tx.messages

\* C19: as the claim words it, a syncChats call changes only chats of its
\* user: its commit leaves every stored chat of another user as it was,
\* with its messages.  The snapshot holds the caller's rows only, so a
\* record of the caller's that carries the chatId of another user's chat is
\* taken for a chat the server does not have, and the upsert rewrites that
\* row, user_id included.
C19_OtherUsersChatsUntouched ==
    [][sync.pc = "commit" =>
          \A id \in DOMAIN chats :
              chats[id].user_id # sync.userId =>
                  /\ id \in DOMAIN chats' /\ chats'[id] = chats[id]
                  /\ \A m \in DOMAIN messages :
                        messages[m].chat_id = id => m \in DOMAIN messages']_vars

(***************************************************************************)
(* Properties of two syncChats calls at once (SpecRace).                   *)
(***************************************************************************)
\* C16: a syncChats call decides from the snapshot it read before its
\* transaction: what another call of the same user commits in between
\* changes neither its snapshot nor its lists, and its commit writes the
\* row of each record of chatsToSync over whatever is stored by then, a
\* row with a greater updated_at included.
C16_LastCommitWins ==
    [][/\ ("other" \in DOMAIN sync' /\ "other" \notin DOMAIN sync) =>
             /\ sync'.dbChats = sync.dbChats
             /\ sync'.chatsToSync = sync.chatsToSync
             /\ sync'.chatsToDelete = sync.chatsToDelete
       /\ sync.pc = "commit" =>
             \A r \in Range(sync.chatsToSync) :
                 r.chatId \in DOMAIN chats' /\ chats'[r.chatId] = ChatRow(r)]_vars

\* the lost update: both calls read the same snapshot, which holds c1 live,
\* both decided to upsert a live, newer record; the other call's, the newer
\* of the two, is committed, and this call is about to commit its own over
\* it
C16_Witness ==
    /\ sync.pc = "commit"
    /\ "other" \in DOMAIN sync
    /\ sync.other.dbChats = sync.dbChats
    /\ \E d \in sync.dbChats :
       \E a \in Range(sync.chatsToSync), b \in Range(sync.other.chatsToSync) :
          /\ d.chatId = "c1" /\ a.chatId = "c1" /\ b.chatId = "c1"
          /\ d.deletedAt = Null /\ a.deletedAt = Null /\ b.deletedAt = Null
          /\ d.updatedAt < a.updatedAt
          /\ a.updatedAt < b.updatedAt
          /\ chats["c1"] = ChatRow(b)
          /\ sync.tx.chats["c1"] = ChatRow(a)

(***************************************************************************)
(* Properties of message insertion (SpecMessages).                         *)
(***************************************************************************)
\* C9: as the specification words it, message insertion is idempotent, by
\* addMessage and by addMessages alike: a call that passes only message ids
\* the table already holds ends without error and leaves every row as it
\* was.  ADD_MESSAGE_QUERY is a plain INSERT: addMessage of an id already
\* there is refused on the primary key.
C9_MessageInsertIdempotent ==
    [][(/\ outcome'.op \in {"addMessage", "addMessages"}
        /\ outcome'.about # {}
        /\ outcome'.about \subseteq DOMAIN messages) =>
           /\ outcome'.status = "ok"
           /\ messages' = messages]_vars

(***************************************************************************)
(* Properties of the facade and of the migration runner (Spec).            *)
(***************************************************************************)
MigInFlight == mig.pc \in {"walk", "commit", "rollback"}

\* C2: a run of initializeDatabase keeps its work in its transaction: the
\* schema (version rows and effects) is untouched until the commit, no
\* effect of a procedure that threw is ever committed, and the run in which
\* a procedure threw ends in error with the schema exactly as before the
\* call, the version rows and effects of the procedures that completed
\* earlier in that run included.
C2_MigrationAtomic ==
    [][/\ mig.pc \in {"walk", "rollback"} => schema' = schema
       /\ mig.pc = "rollback" => outcome'.status = "error"
       /\ \A e \in schema'.effects : e.whole
       /\ (MigInFlight /\ \E e \in mig.tx.effects : ~e.whole) =>
             mig.pc = "rollback"]_vars

\* the second procedure of the run threw after the first had completed and
\* its version row was written in the transaction
C2_Witness ==
    /\ mig.pc = "rollback"
    /\ Len(mig.ran) >= 2
    /\ mig.tx.versions # schema.versions
    /\ \E e \in mig.tx.effects : e.whole /\ e \notin schema.effects

\* the call before this one was an initializeDatabase that committed with
\* the procedures registered now
SecondRunInARow ==
    /\ MigInFlight
    /\ mig.previous = Done("initializeDatabase", "ok", migrations)

\* C3: a run of initializeDatabase that follows a committed run with the
\* same registered procedures executes no procedure, writes no version
\* row, does not fail, and leaves the schema as the first run left it.
C3_MigrationIdempotent ==
    [][SecondRunInARow =>
          /\ mig.ran = <<>>
          /\ mig.tx = schema
          /\ mig.pc # "rollback"
          /\ schema' = schema
          /\ mig.pc = "commit" => outcome'.status = "ok"]_vars

\* the second run is about to commit; the first had run the baseline and a
\* caller's procedure
C3_Witness ==
    /\ SecondRunInARow
    /\ mig.pc = "commit"
    /\ Cardinality(DOMAIN migrations) >= 2
    /\ Cardinality(schema.versions) >= 2

\* every facade operation but initializeDatabase and shutdownDatabase
GuardedOps ==
    ReadOps \cup {"addChat", "addChats", "syncChats", "addMessage",
                  "addMessages", "renameChat", "deleteChat"}

\* C10: while initializeDatabase has never been called, a call of any
\* facade operation but initializeDatabase and shutdownDatabase ends with
\* the not-initialized error, takes no connection and leaves the tables,
\* the schema and the facade's client as they were.
C10_UninitializedGuard ==
    [][(/\ databaseClient = "null"
        /\ outcome'.op \in GuardedOps) =>
           /\ outcome'.status = NotInitialized
           /\ UNCHANGED <<databaseClient, migrations, schema, chats, messages,
                          sync, mig, held>>]_vars

\* a process that never initialized the facade finds a chat in the store,
\* and the guard has just refused its deleteChat
C10_Witness ==
    /\ databaseClient = "null"
    /\ "c1" \in DOMAIN chats
    /\ outcome.op = "deleteChat"
    /\ outcome.status = NotInitialized

\* the versions of the procedures whose effects are committed
AppliedVersions == {e.version : e \in schema.effects}

\* C11: in every committed state of the store the recorded schema version is
\* the number of upgrade procedures whose effects are committed (they are
\* the procedures for the versions below it, one each, and the version rows
\* are those written after each of them), and no step takes the recorded
\* version down.
C11_VersionCountsMigrations ==
    /\ [](/\ SchemaVersion(schema) = Cardinality(schema.effects)
          /\ AppliedVersions = 0 .. (SchemaVersion(schema) - 1)
          /\ schema.versions = 1 .. SchemaVersion(schema))
    /\ [][SchemaVersion(schema') >= SchemaVersion(schema)]_vars

\* a run failed on a store already at version 1 or more: it was rolled back
C11_Witness ==
    /\ outcome.op = "initializeDatabase"
    /\ outcome.status = "error"
    /\ SchemaVersion(schema) >= 1
    /\ Cardinality(schema.effects) = SchemaVersion(schema)

\* the smallest version from v on for which no procedure is registered
FirstUnregistered(v) ==
    CHOOSE w \in v .. (v + Cardinality(DOMAIN migrations)) :
        /\ w \notin DOMAIN migrations
        /\ \A u \in v .. (w - 1) : u \in DOMAIN migrations

\* the versions from v up, one after the other, as many as `n`
Ascending(v, n) == [i \in 1 .. n |-> v + i - 1]

\* C12: a run that starts at recorded version v executes the procedures
\* registered for v, v+1, ... in that order, each once; when it commits it
\* has executed exactly those below w, the smallest version from v on with
\* no procedure, it ends without error at recorded version w with the
\* effects of exactly those procedures added, and a procedure registered
\* beyond w was not executed.
C12_MigrationOrder ==
    [][MigInFlight =>
          LET v == SchemaVersion(schema)
              w == FirstUnregistered(v)
          IN  /\ mig.ran = Ascending(v, Len(mig.ran))
              /\ Len(mig.ran) <= w - v
              /\ mig.pc = "commit" =>
                    /\ mig.ran = Ascending(v, w - v)
                    /\ SchemaVersion(mig.tx) = w
                    /\ outcome'.status = "ok"
                    /\ SchemaVersion(schema') = w
                    /\ schema'.effects = schema.effects \cup
                          {Effect(u, migrations[u], TRUE) : u \in v .. (w - 1)}]_vars

\* a run about to commit that executed procedures and stopped at a gap, a
\* procedure being registered beyond it
C12_Witness ==
    /\ mig.pc = "commit"
    /\ mig.ran # <<>>
    /\ \E k \in DOMAIN migrations : k > SchemaVersion(mig.tx)

\* the handles the calls in flight hold: one for a syncChats call between
\* BEGIN and COMMIT/ROLLBACK, one for an initializeDatabase run
HeldByCalls ==
    (IF SyncInFlight THEN 1 ELSE 0) + (IF MigInFlight THEN 1 ELSE 0)

\* C14: the handles held are exactly those of the calls in flight, so none
\* is held once the calls have ended, by return or by throw; a syncChats
\* call and an initializeDatabase run keep their one handle through their
\* statements and give it back, once, on COMMIT and on ROLLBACK alike.
C14_HandleRelease ==
    /\ [](held = HeldByCalls)
    /\ [][/\ (sync.pc \in {"upsert", "delete"} \/ mig.pc = "walk") => held' = held
          /\ sync.pc \in {"commit", "rollback"} =>
                held' = held - 1 /\ sync'.pc = "idle"
          /\ mig.pc \in {"commit", "rollback"} =>
                held' = held - 1 /\ mig'.pc = "idle"]_vars

\* a syncChats call on an initialized store with an open pool has thrown,
\* after its rollback, and no handle is held
C14_Witness ==
    /\ outcome = Done("syncChats", "error", {})
    /\ databaseClient = "open"
    /\ TablesExist(schema)
    /\ held = 0

\* C17: the facade's client is set by the first step of initializeDatabase
\* and no step sets it back to null, not the failure of the run and not
\* shutdownDatabase; once it is set no guarded operation ends with the
\* not-initialized error: the call goes to the client.
C17_GuardNeverCleared ==
    [][/\ isDatabaseClientSet => databaseClient' # "null"
       /\ (mig.pc = "idle" /\ mig'.pc = "walk") => databaseClient' = "open"
       /\ (isDatabaseClientSet /\ outcome'.op \in GuardedOps) =>
             outcome'.status # NotInitialized]_vars

\* the only initializeDatabase run failed and was rolled back, the facade
\* was shut down, and a deleteChat then went to the client and failed there
C17_Witness ==
    /\ databaseClient = "ended"
    /\ schema = FreshSchema
    /\ outcome = Done("deleteChat", "error", {"c1"})

(***************************************************************************)
(* Properties of the LLM facade (SpecLlm).                                 *)
(***************************************************************************)
\* the call in flight, or the last call, got a response that is not 2xx
NonOk == llm.fetches > 0 /\ ~llm.response.rejected /\ ~llm.response.ok

\* C13: as the specification words it, for each of the four operations a
\* response that is not 2xx makes the call fail: nothing of it is yielded,
\* the call does not end by returning, the failure carries the provider's
\* error.message when the body has one, and the request is sent once.
\* streamCompletion never looks at res.ok: it yields the body of an error
\* response chunk after chunk and completes.
C13_TransportFailure ==
    NonOk =>
        /\ llm.yielded = <<>>
        /\ llm.result.kind # "returned"
        /\ llm.fetches = 1
        /\ (llm.pc = "idle" /\ llm.response.body = "errorMessage") =>
              llm.result = Thrown(<<"HTTP error! status: ", "m">>)

====
